---- MODULE Spec2Model ----
(***************************************************************************)
(* Model of devops/scripts/validate_deployment.py: the DeploymentValidator *)
(* class (HTTP shim, workspace tree lister, folder / cluster / smoke       *)
(* checks, report) and the main() driver that selects the checks and sets  *)
(* the process exit code.                                                  *)
(*                                                                         *)
(* The remote workspace is the environment.  The program reads every       *)
(* remote path at most once per run, so the content of a folder and the    *)
(* outcome of each request are drawn when the request is issued and are    *)
(* recorded in the variables workspace, clusters and requests.             *)
(***************************************************************************)
EXTENDS Integers, Sequences, FiniteSets, TLC

VARIABLES
    args,               \* parsed command line + credentials (main, 289-306)
    pc,                 \* position of the control flow in main()
    validation_results, \* self.validation_results
    all_passed,         \* main's local all_passed
    report,             \* the report built by generate_report (None before)
    exit_code,          \* argument of sys.exit (-1 while running)
    requests,           \* every HTTP request issued so far, with its outcome
    workspace,          \* remote folders as revealed to the run
    clusters,           \* remote cluster list as revealed to the run
    returned            \* return value of a method called directly

vars == <<args, pc, validation_results, all_passed, report, exit_code,
          requests, workspace, clusters, returned>>

---------------------------------------------------------------------------
(* Bounds of the model *)

\* objects (notebooks, directories, files) below the three folders of one
\* workspace validated by a run of main()
MaxObjects == 1
\* clusters in the cluster list seen by a run of main()
MaxClusters == 1
\* objects below the folder handed to one direct method call
MaxTreeNodes == 3
\* clusters in the cluster list handed to one direct validate_cluster call
MaxClusterList == 3

---------------------------------------------------------------------------
(* Values *)

None == [none |-> TRUE]
EmptyDict == [k \in {} |-> k]

\* Python truthiness of an Optional[Dict]
Truthy(response) == response # None /\ DOMAIN response # {}

Envs == {"dev", "test", "prod"}
UseCases == {"usecase-1", "usecase-2"}
Folders == {"shared"} \cup UseCases
ObjectTypes == {"NOTEBOOK", "DIRECTORY", "FILE"}
Outcomes == {"ok", "http_error", "exception"}
ClusterStates == {"RUNNING", "TERMINATED"}

\* self.base_path / shared_path / use_case_path / bundle_root and the paths
\* of the objects below them; node 0 is the folder itself
bundle_root(env) == [env |-> env, folder |-> "", node |-> 0]
base_path(env) == [env |-> env, folder |-> "files/src", node |-> 0]
folder_path(env, folder) == [env |-> env, folder |-> folder, node |-> 0]
ObjectPath(root, j) == [root EXCEPT !.node = j]

---------------------------------------------------------------------------
(* The remote workspace: a folder's content is a tree, written as the      *)
(* sequence of its objects in depth-first order (a directory, then what    *)
(* its listing returns, in the order it returns it), each with its depth   *)
(* below the folder.  An object is named by its position in the sequence.  *)

ValidDepths(t) ==
    IF t = <<>> THEN {1}
    ELSE 1..(IF t[Len(t)].object_type = "DIRECTORY"
             THEN t[Len(t)].depth + 1 ELSE t[Len(t)].depth)

RECURSIVE TreesOfSize(_)
TreesOfSize(n) ==
    IF n = 0 THEN {<<>>}
    ELSE UNION { { Append(t, [depth |-> d, object_type |-> ty]) :
                       d \in ValidDepths(t), ty \in ObjectTypes } :
                 t \in TreesOfSize(n - 1) }

Trees(n) == UNION { TreesOfSize(k) : k \in 0..n }

DepthOf(t, p) == IF p = 0 THEN 0 ELSE t[p].depth

\* the objects directly below directory p, in listing order
RECURSIVE ChildrenFrom(_, _, _)
ChildrenFrom(t, p, j) ==
    IF j > Len(t) \/ t[j].depth <= DepthOf(t, p) THEN <<>>
    ELSE IF t[j].depth = DepthOf(t, p) + 1
         THEN <<j>> \o ChildrenFrom(t, p, j + 1)
         ELSE ChildrenFrom(t, p, j + 1)

Children(t, p) == ChildrenFrom(t, p, p + 1)

DirNodes(t) == {0} \cup {j \in 1..Len(t) : t[j].object_type = "DIRECTORY"}

\* the directories on the way from the folder down to object j
Ancestors(t, j) ==
    {0} \cup {k \in 1..(j - 1) : /\ t[k].depth < t[j].depth
                                /\ \A m \in (k + 1)..j : t[m].depth > t[k].depth}

\* the remote's replies
ErrorReply(outcome) ==
    IF outcome = "exception"
    THEN [raised |-> TRUE, status_code |-> 0, json |-> None]
    ELSE [raised |-> FALSE, status_code |-> 404, json |-> [error_code |-> "ERR"]]

OkReply(body) == [raised |-> FALSE, status_code |-> 200, json |-> body]

ListBody(path, t) ==
    LET ch == Children(t, path.node)
    IN  IF ch = <<>> THEN EmptyDict
        ELSE [objects |-> [i \in 1..Len(ch) |->
                 [path |-> ObjectPath(path, ch[i]),
                  object_type |-> t[ch[i]].object_type]]]

ListReply(path, t, net) ==
    IF net[path.node] = "ok" THEN OkReply(ListBody(path, t))
    ELSE ErrorReply(net[path.node])

StatusReply(path, exists, outcome) ==
    IF outcome # "ok" THEN ErrorReply(outcome)
    ELSE IF exists THEN OkReply([path |-> path, object_type |-> "DIRECTORY"])
    ELSE ErrorReply("http_error")

ClusterReply(cl, outcome) ==
    IF outcome # "ok" THEN ErrorReply(outcome)
    ELSE IF cl = <<>> THEN OkReply(EmptyDict)
    ELSE OkReply([clusters |-> cl])

---------------------------------------------------------------------------
(* DeploymentValidator *)

\* _make_request without the status_code == 200 test
make_request_IgnoresStatus(endpoint, method, reply) ==
    IF method \notin {"GET", "POST"} THEN None
    ELSE IF reply.raised THEN None
    ELSE reply.json

_make_request(endpoint, method, reply) ==
    IF method \notin {"GET", "POST"} THEN None
    ELSE IF reply.raised THEN None
    ELSE IF reply.status_code = 200 THEN reply.json
    ELSE None

\* one entry of the request log: what was asked, what the remote did, and
\* whether _make_request handed a response (not None) back to its caller
Request(endpoint, path, reply) ==
    [endpoint |-> endpoint, path |-> path,
     failed |-> reply.raised \/ reply.status_code # 200,
     ok |-> _make_request(endpoint, IF endpoint = "/clusters/list" THEN "GET" ELSE "POST",
                          reply) # None]

check_path_exists(path, reply) ==
    LET response == _make_request("/workspace/get-status", "POST", reply)
    IN  Truthy(response) /\ "path" \in DOMAIN response

RECURSIVE list_notebooks(_, _, _)
RECURSIVE list_loop(_, _, _, _, _)

\* the loop of list_notebooks without the DIRECTORY branch
RECURSIVE list_loop_NoRecursion(_, _, _, _, _)
list_loop_NoRecursion(objects, i, notebooks, t, net) ==
    IF i > Len(objects) THEN notebooks
    ELSE LET obj == objects[i]
         IN  IF obj.object_type = "NOTEBOOK"
             THEN list_loop_NoRecursion(objects, i + 1, Append(notebooks, obj.path), t, net)
             ELSE list_loop_NoRecursion(objects, i + 1, notebooks, t, net)

\* the loop of list_notebooks putting a directory's notebooks in front
RECURSIVE list_loop_DirsFirst(_, _, _, _, _)
list_loop_DirsFirst(objects, i, notebooks, t, net) ==
    IF i > Len(objects) THEN notebooks
    ELSE LET obj == objects[i]
         IN  IF obj.object_type = "NOTEBOOK"
             THEN list_loop_DirsFirst(objects, i + 1, Append(notebooks, obj.path), t, net)
             ELSE IF obj.object_type = "DIRECTORY"
             THEN list_loop_DirsFirst(objects, i + 1,
                      list_notebooks(obj.path, t, net) \o notebooks, t, net)
             ELSE list_loop_DirsFirst(objects, i + 1, notebooks, t, net)

list_notebooks(path, t, net) ==
    LET response == _make_request("/workspace/list", "POST", ListReply(path, t, net))
    IN  IF Truthy(response) /\ "objects" \in DOMAIN response
        THEN list_loop(response.objects, 1, <<>>, t, net)
        ELSE <<>>

list_loop(objects, i, notebooks, t, net) ==
    IF i > Len(objects) THEN notebooks
    ELSE LET obj == objects[i]
         IN  IF obj.object_type = "NOTEBOOK"
             THEN list_loop(objects, i + 1, Append(notebooks, obj.path), t, net)
             ELSE IF obj.object_type = "DIRECTORY"
             THEN list_loop(objects, i + 1,
                            notebooks \o list_notebooks(obj.path, t, net), t, net)
             ELSE list_loop(objects, i + 1, notebooks, t, net)

\* the requests list_notebooks issues, in order
RECURSIVE list_requests(_, _, _)
RECURSIVE list_requests_loop(_, _, _, _, _)
list_requests(path, t, net) ==
    LET response == _make_request("/workspace/list", "POST", ListReply(path, t, net))
    IN  <<Request("/workspace/list", path, ListReply(path, t, net))>> \o
        (IF Truthy(response) /\ "objects" \in DOMAIN response
         THEN list_requests_loop(response.objects, 1, <<>>, t, net)
         ELSE <<>>)

list_requests_loop(objects, i, reqs, t, net) ==
    IF i > Len(objects) THEN reqs
    ELSE LET obj == objects[i]
         IN  IF obj.object_type = "DIRECTORY"
             THEN list_requests_loop(objects, i + 1,
                                     reqs \o list_requests(obj.path, t, net), t, net)
             ELSE list_requests_loop(objects, i + 1, reqs, t, net)


\* validate_shared_folder recording a missing folder as a WARNING
validate_shared_folder_MissingWarns(env, results, reply, t, net) ==
    LET shared_path == folder_path(env, "shared")
        notebooks == list_notebooks(shared_path, t, net)
    IN  IF ~check_path_exists(shared_path, reply) \/ notebooks = <<>>
        THEN [validation_results |-> Append(results,
                  [component |-> "shared", status |-> "WARNING",
                   message |-> [text |-> "Shared folder exists but contains no notebooks"]]),
              ret |-> TRUE]
        ELSE [validation_results |-> Append(results,
                  [component |-> "shared", status |-> "PASSED",
                   message |-> [text |-> "Found notebooks in shared folder",
                                count |-> Len(notebooks)],
                   notebooks |-> notebooks]),
              ret |-> TRUE]

validate_shared_folder(env, results, reply, t, net) ==
    LET shared_path == folder_path(env, "shared")
    IN  IF ~check_path_exists(shared_path, reply)
        THEN [validation_results |-> Append(results,
                  [component |-> "shared", status |-> "FAILED",
                   message |-> [text |-> "Shared folder not found at",
                                path |-> shared_path]]),
              ret |-> FALSE]
        ELSE LET notebooks == list_notebooks(shared_path, t, net)
             IN  IF notebooks = <<>>
                 THEN [validation_results |-> Append(results,
                           [component |-> "shared", status |-> "WARNING",
                            message |-> [text |-> "Shared folder exists but contains no notebooks"]]),
                       ret |-> TRUE]
                 ELSE [validation_results |-> Append(results,
                           [component |-> "shared", status |-> "PASSED",
                            message |-> [text |-> "Found notebooks in shared folder",
                                         count |-> Len(notebooks)],
                            notebooks |-> notebooks]),
                       ret |-> TRUE]

validate_use_case(env, results, use_case, reply, t, net) ==
    LET use_case_path == folder_path(env, use_case)
    IN  IF ~check_path_exists(use_case_path, reply)
        THEN [validation_results |-> Append(results,
                  [component |-> use_case, status |-> "FAILED",
                   message |-> [text |-> "folder not found at",
                                path |-> use_case_path]]),
              ret |-> FALSE]
        ELSE LET notebooks == list_notebooks(use_case_path, t, net)
             IN  IF notebooks = <<>>
                 THEN [validation_results |-> Append(results,
                           [component |-> use_case, status |-> "WARNING",
                            message |-> [text |-> "folder exists but contains no notebooks"]]),
                       ret |-> TRUE]
                 ELSE [validation_results |-> Append(results,
                           [component |-> use_case, status |-> "PASSED",
                            message |-> [text |-> "Found notebooks in use case",
                                         count |-> Len(notebooks)],
                            notebooks |-> notebooks]),
                       ret |-> TRUE]

\* the requests of one folder check (validate_shared_folder / validate_use_case)
folder_requests(path, reply, t, net) ==
    <<Request("/workspace/get-status", path, reply)>> \o
    (IF check_path_exists(path, reply) THEN list_requests(path, t, net) ELSE <<>>)

ClusterComponent(cluster_name) == "cluster-" \o cluster_name

Lower(name) ==
    CASE name = "Dev-Cluster" -> "dev-cluster"
      [] name = "Test-Cluster" -> "test-cluster"
      [] name = "Prod-Cluster" -> "prod-cluster"
      [] OTHER -> name

\* the for loop of validate_cluster comparing the names without their case
RECURSIVE cluster_loop_IgnoresCase(_, _, _)
cluster_loop_IgnoresCase(cl, i, cluster_name) ==
    IF i > Len(cl) THEN 0
    ELSE IF Lower(cl[i].cluster_name) = Lower(cluster_name) THEN i
    ELSE cluster_loop_IgnoresCase(cl, i + 1, cluster_name)

\* the for loop of validate_cluster: index of the cluster it stops at, 0 if none
RECURSIVE cluster_loop(_, _, _)
cluster_loop(cl, i, cluster_name) ==
    IF i > Len(cl) THEN 0
    ELSE IF cl[i].cluster_name = cluster_name THEN i
    ELSE cluster_loop(cl, i + 1, cluster_name)

validate_cluster(results, cluster_name, reply) ==
    LET response == _make_request("/clusters/list", "GET", reply)
        found == IF Truthy(response) /\ "clusters" \in DOMAIN response
                 THEN cluster_loop(response.clusters, 1, cluster_name)
                 ELSE 0
    IN  IF found # 0
        THEN [validation_results |-> Append(results,
                  [component |-> ClusterComponent(cluster_name), status |-> "PASSED",
                   message |-> [text |-> "Cluster found"],
                   cluster_state |-> response.clusters[found].state]),
              ret |-> TRUE]
        ELSE [validation_results |-> Append(results,
                  [component |-> ClusterComponent(cluster_name), status |-> "WARNING",
                   message |-> [text |-> "Cluster not found"]]),
              ret |-> FALSE]

run_smoke_test(env, reply) ==
    Truthy(_make_request("/workspace/get-status", "POST", reply))

CountStatus(results, status) ==
    Cardinality({i \in 1..Len(results) : results[i].status = status})

\* generate_report counting the cluster warnings as passed
generate_report_MiscountsWarnings(env, results) ==
    [environment |-> env,
     base_path |-> base_path(env),
     validation_results |-> results,
     summary |-> [total_checks |-> Len(results),
                  passed |-> Cardinality({i \in 1..Len(results) :
                                 results[i].status \in {"PASSED", "WARNING"}}),
                  failed |-> CountStatus(results, "FAILED"),
                  warnings |-> CountStatus(results, "WARNING")]]

generate_report(env, results) ==
    [environment |-> env,
     base_path |-> base_path(env),
     validation_results |-> results,
     summary |-> [total_checks |-> Len(results),
                  passed |-> CountStatus(results, "PASSED"),
                  failed |-> CountStatus(results, "FAILED"),
                  warnings |-> CountStatus(results, "WARNING")]]

---------------------------------------------------------------------------
(* The environment's choices *)

NotRead == [read |-> FALSE, exists |-> FALSE, tree |-> <<>>]
NoClusters == [read |-> FALSE, list |-> <<>>]

\* objects of the workspace already revealed to the run
ObjectsRead(w) ==
    Len(w["shared"].tree) + Len(w["usecase-1"].tree) + Len(w["usecase-2"].tree)

cluster_name_of(env) == env \o "-cluster"

OtherCase(name) ==
    CASE name = "dev-cluster" -> "Dev-Cluster"
      [] name = "test-cluster" -> "Test-Cluster"
      [] name = "prod-cluster" -> "Prod-Cluster"
      [] OTHER -> name

\* names a listed cluster may carry when <env>-cluster is looked for: the name
\* itself and a name that differs from it (by the case of two letters)
ClusterNames(env) ==
    {cluster_name_of(env), OtherCase(cluster_name_of(env))}

Clusters(env) == [cluster_name : ClusterNames(env), state : ClusterStates]

ClusterLists(env, n) == UNION { [1..k -> Clusters(env)] : k \in 0..n }

ArgSets ==
    [env : Envs, has_host : BOOLEAN, has_token : BOOLEAN,
     use_case : {"none", "all"} \cup UseCases,
     validate_all : BOOLEAN, smoke_test : BOOLEAN]

---------------------------------------------------------------------------
(* main() *)

InitMain ==
    /\ args \in ArgSets
    /\ pc = "main"
    /\ validation_results = <<>>
    /\ all_passed = TRUE
    /\ report = None
    /\ exit_code = -1
    /\ requests = <<>>
    /\ workspace = [f \in Folders |-> NotRead]
    /\ clusters = NoClusters
    /\ returned = None

\* lines 302-326: credentials, validator construction, all_passed = True
CheckCredentials ==
    /\ pc = "main"
    /\ IF ~args.has_host \/ ~args.has_token
       THEN /\ exit_code' = 1
            /\ pc' = "exited"
       ELSE /\ exit_code' = exit_code
            /\ pc' = "run"
    /\ validation_results' = <<>>
    /\ all_passed' = TRUE
    /\ UNCHANGED <<args, report, requests, workspace, clusters, returned>>

\* lines 328-329
RunSmokeTest ==
    /\ pc = "run"
    /\ args.smoke_test
    /\ \E exists \in BOOLEAN, outcome \in Outcomes :
         LET path == bundle_root(args.env)
             reply == StatusReply(path, exists, outcome)
         IN  /\ all_passed' = run_smoke_test(args.env, reply)
             /\ requests' = Append(requests, Request("/workspace/get-status", path, reply))
    /\ pc' = "report"
    /\ UNCHANGED <<args, validation_results, report, exit_code, workspace,
                   clusters, returned>>

\* where main goes after the shared-folder check (lines 336-346)
AfterShared(a) ==
    IF a.validate_all \/ a.use_case = "all" THEN "all_1"
    ELSE IF a.use_case # "none" THEN "single"
    ELSE "cluster"

\* the remote's side of one folder check: whether the folder exists, how the
\* status probe ends, the tree below the folder, how each listing ends
FolderInputs(budget) ==
    { [exists |-> e, outcome |-> o, tree |-> t, net |-> n] :
        e \in BOOLEAN, o \in Outcomes, t \in {<<>>}, n \in {[d \in {0} |-> "ok"]} }
    \cup
    UNION { { [exists |-> TRUE, outcome |-> "ok", tree |-> t, net |-> n] :
                n \in [DirNodes(t) -> Outcomes] } : t \in Trees(budget) }

\* main without the else of `if args.smoke_test`: the shared-folder check
\* also runs in smoke-test mode
ValidateSharedFolder_InSmokeMode ==
    /\ pc = "run"
    /\ \E in \in FolderInputs(MaxObjects - ObjectsRead(workspace)) :
         LET path == folder_path(args.env, "shared")
             reply == StatusReply(path, in.exists, in.outcome)
             r == validate_shared_folder(args.env, validation_results, reply,
                                         in.tree, in.net)
         IN  /\ validation_results' = r.validation_results
             /\ all_passed' = IF ~r.ret THEN FALSE ELSE all_passed
             /\ requests' = requests \o folder_requests(path, reply, in.tree, in.net)
             /\ workspace' = [workspace EXCEPT !["shared"] =
                    [read |-> TRUE, exists |-> in.exists, tree |-> in.tree]]
    /\ pc' = AfterShared(args)
    /\ UNCHANGED <<args, report, exit_code, clusters, returned>>

\* lines 330-333
ValidateSharedFolder ==
    /\ pc = "run"
    /\ ~args.smoke_test
    /\ \E in \in FolderInputs(MaxObjects - ObjectsRead(workspace)) :
         LET path == folder_path(args.env, "shared")
             reply == StatusReply(path, in.exists, in.outcome)
             r == validate_shared_folder(args.env, validation_results, reply,
                                         in.tree, in.net)
         IN  /\ validation_results' = r.validation_results
             /\ all_passed' = IF ~r.ret THEN FALSE ELSE all_passed
             /\ requests' = requests \o folder_requests(path, reply, in.tree, in.net)
             /\ workspace' = [workspace EXCEPT !["shared"] =
                    [read |-> TRUE, exists |-> in.exists, tree |-> in.tree]]
    /\ pc' = AfterShared(args)
    /\ UNCHANGED <<args, report, exit_code, clusters, returned>>

\* a use-case check after which main goes straight to the report when it FAILED
UseCaseStep_AbortsOnFailure(use_case, next) ==
    /\ \E in \in FolderInputs(MaxObjects - ObjectsRead(workspace)) :
         LET path == folder_path(args.env, use_case)
             reply == StatusReply(path, in.exists, in.outcome)
             r == validate_use_case(args.env, validation_results, use_case, reply,
                                    in.tree, in.net)
         IN  /\ validation_results' = r.validation_results
             /\ all_passed' = IF ~r.ret THEN FALSE ELSE all_passed
             /\ requests' = requests \o folder_requests(path, reply, in.tree, in.net)
             /\ workspace' = [workspace EXCEPT ![use_case] =
                    [read |-> TRUE, exists |-> in.exists, tree |-> in.tree]]
             /\ pc' = IF r.ret THEN next ELSE "report"
    /\ UNCHANGED <<args, report, exit_code, clusters, returned>>

\* one `if not validator.validate_use_case(...)` of main
UseCaseStep(use_case, next) ==
    /\ \E in \in FolderInputs(MaxObjects - ObjectsRead(workspace)) :
         LET path == folder_path(args.env, use_case)
             reply == StatusReply(path, in.exists, in.outcome)
             r == validate_use_case(args.env, validation_results, use_case, reply,
                                    in.tree, in.net)
         IN  /\ validation_results' = r.validation_results
             /\ all_passed' = IF ~r.ret THEN FALSE ELSE all_passed
             /\ requests' = requests \o folder_requests(path, reply, in.tree, in.net)
             /\ workspace' = [workspace EXCEPT ![use_case] =
                    [read |-> TRUE, exists |-> in.exists, tree |-> in.tree]]
    /\ pc' = next
    /\ UNCHANGED <<args, report, exit_code, clusters, returned>>

\* lines 337-338
ValidateUseCase1 ==
    /\ pc = "all_1"
    /\ UseCaseStep("usecase-1", "all_2")

\* lines 339-340
ValidateUseCase2 ==
    /\ pc = "all_2"
    /\ UseCaseStep("usecase-2", "cluster")

\* lines 341-343
ValidateUseCaseSingle ==
    /\ pc = "single"
    /\ UseCaseStep(args.use_case, "cluster")

\* lines 346-347
ValidateCluster ==
    /\ pc = "cluster"
    /\ \E cl \in ClusterLists(args.env, MaxClusters), outcome \in Outcomes :
         LET reply == ClusterReply(cl, outcome)
             r == validate_cluster(validation_results, cluster_name_of(args.env), reply)
         IN  /\ outcome # "ok" => cl = <<>>
             /\ validation_results' = r.validation_results
             /\ requests' = Append(requests, Request("/clusters/list", None, reply))
             /\ clusters' = IF outcome = "ok" THEN [read |-> TRUE, list |-> cl] ELSE NoClusters
    /\ pc' = "report"
    /\ UNCHANGED <<args, all_passed, report, exit_code, workspace, returned>>

\* main exiting 1 on warnings too
ReportAndExit_WarningsFail ==
    /\ pc = "report"
    /\ report' = generate_report(args.env, validation_results)
    /\ exit_code' = IF report'.summary.failed + report'.summary.warnings > 0 THEN 1 ELSE 0
    /\ pc' = "exited"
    /\ UNCHANGED <<args, validation_results, all_passed, requests, workspace,
                   clusters, returned>>

\* lines 350-372: the report (printed, and copied to --output-json when given)
\* and sys.exit
ReportAndExit ==
    /\ pc = "report"
    /\ report' = generate_report(args.env, validation_results)
    /\ exit_code' = IF report'.summary.failed > 0 THEN 1 ELSE 0
    /\ pc' = "exited"
    /\ UNCHANGED <<args, validation_results, all_passed, requests, workspace,
                   clusters, returned>>

MainNext ==
    \/ CheckCredentials
    \/ RunSmokeTest
    \/ ValidateSharedFolder
    \/ ValidateUseCase1
    \/ ValidateUseCase2
    \/ ValidateUseCaseSingle
    \/ ValidateCluster
    \/ ReportAndExit

---------------------------------------------------------------------------
(* One method called directly on a validator that __init__ has just built *)

InitCall ==
    /\ args \in {a \in ArgSets : /\ a.has_host /\ a.has_token
                                 /\ a.use_case = "none"
                                 /\ ~a.validate_all /\ ~a.smoke_test}
    /\ pc = "constructed"
    /\ validation_results = <<>>
    /\ all_passed = TRUE
    /\ report = None
    /\ exit_code = -1
    /\ requests = <<>>
    /\ workspace = [f \in Folders |-> NotRead]
    /\ clusters = NoClusters
    /\ returned = None

CallListNotebooks ==
    /\ pc = "constructed"
    /\ \E folder \in Folders, t \in Trees(MaxTreeNodes) :
         \E net \in [DirNodes(t) -> Outcomes] :
           LET path == folder_path(args.env, folder)
           IN  /\ returned' = list_notebooks(path, t, net)
               /\ requests' = list_requests(path, t, net)
               /\ workspace' = [workspace EXCEPT ![folder] =
                      [read |-> TRUE, exists |-> TRUE, tree |-> t]]
    /\ pc' = "list_notebooks"
    /\ UNCHANGED <<args, validation_results, all_passed, report, exit_code, clusters>>

CallValidateSharedFolder ==
    /\ pc = "constructed"
    /\ \E in \in FolderInputs(MaxTreeNodes) :
         LET path == folder_path(args.env, "shared")
             reply == StatusReply(path, in.exists, in.outcome)
             r == validate_shared_folder(args.env, validation_results, reply,
                                         in.tree, in.net)
         IN  /\ validation_results' = r.validation_results
             /\ returned' = r.ret
             /\ requests' = folder_requests(path, reply, in.tree, in.net)
             /\ workspace' = [workspace EXCEPT !["shared"] =
                    [read |-> TRUE, exists |-> in.exists, tree |-> in.tree]]
    /\ pc' = "validate_shared_folder"
    /\ UNCHANGED <<args, all_passed, report, exit_code, clusters>>

CallValidateUseCase ==
    /\ pc = "constructed"
    /\ \E use_case \in UseCases, in \in FolderInputs(MaxTreeNodes) :
         LET path == folder_path(args.env, use_case)
             reply == StatusReply(path, in.exists, in.outcome)
             r == validate_use_case(args.env, validation_results, use_case, reply,
                                    in.tree, in.net)
         IN  /\ validation_results' = r.validation_results
             /\ returned' = r.ret
             /\ requests' = folder_requests(path, reply, in.tree, in.net)
             /\ workspace' = [workspace EXCEPT ![use_case] =
                    [read |-> TRUE, exists |-> in.exists, tree |-> in.tree]]
    /\ pc' = "validate_use_case"
    /\ UNCHANGED <<args, all_passed, report, exit_code, clusters>>

CallValidateCluster ==
    /\ pc = "constructed"
    /\ \E cl \in ClusterLists(args.env, MaxClusterList), outcome \in Outcomes :
         LET reply == ClusterReply(cl, outcome)
             r == validate_cluster(validation_results, cluster_name_of(args.env), reply)
         IN  /\ outcome # "ok" => cl = <<>>
             /\ validation_results' = r.validation_results
             /\ returned' = r.ret
             /\ requests' = <<Request("/clusters/list", None, reply)>>
             /\ clusters' = IF outcome = "ok" THEN [read |-> TRUE, list |-> cl] ELSE NoClusters
    /\ pc' = "validate_cluster"
    /\ UNCHANGED <<args, all_passed, report, exit_code, workspace>>

CallNext ==
    \/ CallListNotebooks
    \/ CallValidateSharedFolder
    \/ CallValidateUseCase
    \/ CallValidateCluster

---------------------------------------------------------------------------

Init == InitMain \/ InitCall

Next == MainNext \/ CallNext

Spec == Init /\ [][Next]_vars

---------------------------------------------------------------------------
(* Vocabulary of the properties *)

HasCredentials == args.has_host /\ args.has_token
InMain == pc \in {"main", "run", "all_1", "all_2", "single", "cluster", "report", "exited"}
\* a run of main() that got past the credential check, in either mode
SmokeRun == InMain /\ HasCredentials /\ args.smoke_test
FullRun == InMain /\ HasCredentials /\ ~args.smoke_test

Statuses == {"PASSED", "FAILED", "WARNING"}
ResultsOf(component) ==
    {i \in 1..Len(validation_results) : validation_results[i].component = component}
WithStatus(status) ==
    {i \in 1..Len(validation_results) : validation_results[i].status = status}
ClusterResults == ResultsOf("cluster-" \o args.env \o "-cluster")

\* requests of the log
StatusProbes(path) ==
    {i \in 1..Len(requests) : /\ requests[i].endpoint = "/workspace/get-status"
                              /\ requests[i].path = path}
Listings(folder) ==
    {i \in 1..Len(requests) : /\ requests[i].endpoint = "/workspace/list"
                              /\ requests[i].path.folder = folder}
ClusterListings == {i \in 1..Len(requests) : requests[i].endpoint = "/clusters/list"}

\* the directories of a folder whose listing request came back with a response
ListedOk(folder) == {requests[i].path.node : i \in {k \in Listings(folder) : requests[k].ok}}

\* the check that has just appended its result (results are only appended, so
\* what a check records is examined in the state it leaves behind)
LastResult == validation_results[Len(validation_results)]
JustChecked(component) ==
    /\ validation_results # <<>>
    /\ LastResult.component = component

\* a folder check has just run on the folder and its existence probe found it
FolderFound(folder) ==
    /\ JustChecked(folder)
    /\ \E i \in StatusProbes(folder_path(args.env, folder)) : requests[i].ok

NotebookNodes(t) == {j \in 1..Len(t) : t[j].object_type = "NOTEBOOK"}
\* the notebooks that lie below directories whose listings all succeeded
VisibleNotebooks(folder) ==
    {j \in NotebookNodes(workspace[folder].tree) :
        Ancestors(workspace[folder].tree, j) \subseteq ListedOk(folder)}

---------------------------------------------------------------------------
(* C1 *)

\* C1: in smoke-test mode with credentials the process exits 0 when
\* run_smoke_test succeeded and 1 when it failed (main keeps the return value
\* of run_smoke_test in all_passed).
C1_SmokeExitFollowsSmokeTest ==
    (SmokeRun /\ pc = "exited") => exit_code = (IF all_passed THEN 0 ELSE 1)

---------------------------------------------------------------------------
(* C2 *)

---------------------------------------------------------------------------
(* C3 *)

SharedProbedAbsent ==
    \E i \in StatusProbes(folder_path(args.env, "shared")) : ~requests[i].ok

\* C3: when the existence probe of <base_path>/shared reports the folder
\* absent, exactly one result has component "shared", it is FAILED, and the
\* run ends with a non-zero exit code whatever the later checks record.
C3_MissingSharedFails ==
    SharedProbedAbsent =>
        /\ Cardinality(ResultsOf("shared")) = 1
        /\ \A i \in ResultsOf("shared") : validation_results[i].status = "FAILED"
        /\ pc = "exited" => exit_code # 0

C3_Witness ==
    /\ SharedProbedAbsent /\ pc = "exited" /\ exit_code = 1
    /\ args.use_case = "all"
    /\ \E i \in ResultsOf("usecase-1") : validation_results[i].status = "PASSED"
    /\ \E i \in ResultsOf("usecase-2") : validation_results[i].status = "WARNING"
    /\ \E i \in ClusterResults : validation_results[i].status = "PASSED"

---------------------------------------------------------------------------
(* C4 *)

\* C4 as stated: for a folder check whose folder exists, the status is WARNING
\* when the tree under the folder yields no notebook, and otherwise PASSED with
\* as many paths (and the same count in the message) as there are
\* NOTEBOOK-typed objects in the whole remote tree under the folder.
C4_CountsWholeTree ==
    \A folder \in Folders : FolderFound(folder) =>
            LET res == LastResult
                n == Cardinality(NotebookNodes(workspace[folder].tree))
            IN  /\ res.status \in {"WARNING", "PASSED"}
                /\ res.status = "WARNING" => "notebooks" \notin DOMAIN res
                /\ res.status = "PASSED" => /\ Len(res.notebooks) = n
                                            /\ res.message.count = n

\* C4 amended: for a folder check whose folder exists, the status is WARNING
\* when no notebook lies below directories whose listing requests all
\* succeeded, and otherwise PASSED with as many paths (and the same count in
\* the message) as there are such notebooks in the, possibly nested, tree.
C4_CountsListedTree ==
    \A folder \in Folders : FolderFound(folder) =>
            LET res == LastResult
                n == Cardinality(VisibleNotebooks(folder))
            IN  IF n = 0 THEN res.status = "WARNING" /\ "notebooks" \notin DOMAIN res
                ELSE /\ res.status = "PASSED"
                     /\ Len(res.notebooks) = n
                     /\ res.message.count = n

\* a PASSED folder check that counted two notebooks, one of them nested
C4_Witness ==
    \E folder \in Folders :
        /\ FolderFound(folder)
        /\ LastResult.status = "PASSED"
        /\ LastResult.message.count = 2
        /\ \E j \in VisibleNotebooks(folder) : workspace[folder].tree[j].depth >= 2

---------------------------------------------------------------------------
(* C5 *)

\* positions of the listed clusters whose name is exactly <env>-cluster
MatchingClusters ==
    {k \in 1..Len(clusters.list) : clusters.list[k].cluster_name = args.env \o "-cluster"}

ClusterCheckDone ==
    \/ pc = "validate_cluster"
    \/ FullRun /\ pc \in {"report", "exited"}

\* C5: validate_cluster appends exactly one result per call; it is PASSED with
\* the state of the first listed cluster named exactly <env>-cluster when the
\* list holds one, and WARNING otherwise (also when the cluster-list request
\* fails); it is never FAILED, so a run whose folder checks record no FAILED
\* exits 0 whatever the cluster check records.
C5_ClusterPassedOrWarning ==
    /\ ~ClusterCheckDone => ClusterResults = {}
    /\ ClusterCheckDone =>
        /\ Cardinality(ClusterResults) = 1
        /\ ClusterResults = {Len(validation_results)}
        /\ LET res == validation_results[Len(validation_results)]
           IN  IF MatchingClusters # {}
               THEN /\ res.status = "PASSED"
                    /\ \E k \in MatchingClusters :
                         /\ \A m \in MatchingClusters : k <= m
                         /\ res.cluster_state = clusters.list[k].state
               ELSE /\ res.status = "WARNING"
                    /\ "cluster_state" \notin DOMAIN res
        /\ (pc = "exited" /\ exit_code # 0) =>
              \E i \in 1..Len(validation_results) :
                  /\ i \notin ClusterResults
                  /\ validation_results[i].status = "FAILED"

\* the name is listed twice, in different states, after a cluster whose name
\* differs from it by case only
C5_Witness ==
    /\ pc = "validate_cluster"
    /\ MatchingClusters = {2, 3}
    /\ clusters.list[1].cluster_name = OtherCase(args.env \o "-cluster")
    /\ clusters.list[2].state # clusters.list[3].state
    /\ clusters.list[1].state # clusters.list[2].state
    /\ validation_results[1].status = "PASSED"

---------------------------------------------------------------------------
(* C6 *)

\* C6: with --smoke-test set no shared-folder, use-case or cluster check runs,
\* whatever the other flags: the only request is the status probe of the
\* deployment root, the result sequence stays empty and the report counts are
\* all zero.
C6_SmokeTestOnly ==
    (InMain /\ args.smoke_test) =>
        /\ validation_results = <<>>
        /\ \A i \in 1..Len(requests) :
              /\ requests[i].endpoint = "/workspace/get-status"
              /\ requests[i].path = bundle_root(args.env)
        /\ Len(requests) = (IF HasCredentials /\ pc \in {"report", "exited"} THEN 1 ELSE 0)
        /\ \A f \in Folders : ~workspace[f].read
        /\ clusters = NoClusters
        /\ report # None =>
              report.summary = [total_checks |-> 0, passed |-> 0,
                                failed |-> 0, warnings |-> 0]
        /\ (HasCredentials /\ pc = "exited") => report # None

C6_Witness ==
    /\ SmokeRun /\ pc = "exited"
    /\ args.validate_all /\ args.use_case = "usecase-2"
    /\ Len(requests) = 1 /\ requests[1].ok
    /\ report.summary.total_checks = 0

---------------------------------------------------------------------------
(* C7 *)

\* C7: every accumulated result has a status among PASSED, FAILED, WARNING, and
\* in every report passed + failed + warnings = total_checks = the length of
\* the accumulated result sequence.
C7_StatusesAndCounts ==
    /\ \A i \in 1..Len(validation_results) : validation_results[i].status \in Statuses
    /\ report # None =>
        /\ report.summary.passed + report.summary.failed + report.summary.warnings
              = report.summary.total_checks
        /\ report.summary.total_checks = Len(validation_results)
        /\ report.summary.passed = Cardinality(WithStatus("PASSED"))
        /\ report.summary.failed = Cardinality(WithStatus("FAILED"))
        /\ report.summary.warnings = Cardinality(WithStatus("WARNING"))
        /\ report.validation_results = validation_results

C7_Witness ==
    /\ report # None
    /\ report.summary.passed >= 1
    /\ report.summary.failed >= 1
    /\ report.summary.warnings >= 1
    /\ report.summary.total_checks = 4

---------------------------------------------------------------------------
(* C8 *)

\* the use cases main selects (lines 336-343)
Selected ==
    IF args.validate_all \/ args.use_case = "all" THEN <<"usecase-1", "usecase-2">>
    ELSE IF args.use_case \in UseCases THEN <<args.use_case>>
    ELSE <<>>

ExpectedComponents ==
    <<"shared">> \o Selected \o <<"cluster-" \o args.env \o "-cluster">>

ChecksDone ==
    CASE pc \in {"main", "run"} -> 0
      [] pc \in {"all_1", "single"} -> 1
      [] pc = "all_2" -> 2
      [] pc = "cluster" -> 1 + Len(Selected)
      [] OTHER -> 2 + Len(Selected)

\* C8: in a full run no FAILED or WARNING outcome aborts the remaining checks:
\* the results are, in order, the shared folder, the selected use cases
\* (usecase-1 before usecase-2) and the cluster, one result each, the run is
\* never stuck before the report, and the report has
\* total_checks = 2 + the number of selected use cases.
C8_AllSelectedChecksRunInOrder ==
    FullRun =>
        /\ Len(validation_results) = ChecksDone
        /\ \A i \in 1..Len(validation_results) :
              validation_results[i].component = ExpectedComponents[i]
        /\ pc # "exited" => ENABLED MainNext
        /\ pc = "exited" =>
              /\ report # None
              /\ report.summary.total_checks = 2 + Len(Selected)

\* every check of a --validate-all run ran although the first two FAILED
C8_Witness ==
    /\ FullRun /\ pc = "exited" /\ args.validate_all /\ args.use_case = "usecase-1"
    /\ Len(validation_results) = 4
    /\ validation_results[1].status = "FAILED"
    /\ validation_results[2].status = "FAILED"
    /\ validation_results[3].status = "PASSED"
    /\ validation_results[4].status = "WARNING"

---------------------------------------------------------------------------
(* C9 *)

\* what a folder check records for a folder that exists and is empty
EmptyFolderResult(folder) ==
    LET path == folder_path(args.env, folder)
        reply == StatusReply(path, TRUE, "ok")
        oknet == [d \in {0} |-> "ok"]
    IN  IF folder = "shared"
        THEN validate_shared_folder(args.env, <<>>, reply, <<>>, oknet).validation_results[1]
        ELSE validate_use_case(args.env, <<>>, folder, reply, <<>>, oknet).validation_results[1]

\* C9: a non-200 response or a request exception never crashes or stops the
\* run: _make_request returns None, a failed existence probe makes the folder
\* check record FAILED (and list nothing), a failed cluster-list request makes
\* the cluster check record WARNING, and a failed listing of a folder that was
\* found makes the folder check record the WARNING of an empty folder.
C9_RequestErrorsAreAbsorbed ==
    /\ \A i \in 1..Len(requests) : requests[i].failed => ~requests[i].ok
    /\ \A folder \in Folders : JustChecked(folder) =>
        /\ StatusProbes(folder_path(args.env, folder)) # {}
        /\ \A i \in StatusProbes(folder_path(args.env, folder)) :
              ~requests[i].ok => (Listings(folder) = {} /\ LastResult.status = "FAILED")
        /\ (FolderFound(folder) /\ 0 \notin ListedOk(folder)) =>
              LastResult = EmptyFolderResult(folder)
    /\ JustChecked("cluster-" \o args.env \o "-cluster") =>
        /\ ClusterListings # {}
        /\ \A i \in ClusterListings : ~requests[i].ok => LastResult.status = "WARNING"
    /\ (InMain /\ HasCredentials /\ pc # "exited") => ENABLED MainNext
    /\ (InMain /\ HasCredentials /\ pc = "exited") => (report # None /\ exit_code \in {0, 1})

\* a run in which the shared probe, the listing of usecase-1 and the cluster
\* list all failed and that still reported four results
C9_Witness ==
    /\ FullRun /\ pc = "exited"
    /\ SharedProbedAbsent
    /\ \E i \in Listings("usecase-1") : requests[i].path.node = 0 /\ ~requests[i].ok
    /\ \E i \in ClusterListings : requests[i].failed
    /\ report.summary = [total_checks |-> 4, passed |-> 0, failed |-> 2, warnings |-> 2]

---------------------------------------------------------------------------
(* C10 *)

\* seq lists, in listing (depth-first) order and once each, exactly the
\* notebooks of the folder that lie below successfully listed directories
DepthFirstNotebooks(seq, folder) ==
    /\ {seq[i] : i \in 1..Len(seq)} =
          {ObjectPath(folder_path(args.env, folder), j) : j \in VisibleNotebooks(folder)}
    /\ \A i, k \in 1..Len(seq) : i < k => seq[i].node < seq[k].node

\* every directory below successfully listed directories is listed, once
TraversalComplete(folder) ==
    /\ {requests[i].path.node : i \in Listings(folder)} =
          {d \in DirNodes(workspace[folder].tree) :
              d = 0 \/ Ancestors(workspace[folder].tree, d) \subseteq ListedOk(folder)}
    /\ \A i, k \in Listings(folder) : requests[i].path = requests[k].path => i = k

\* C10: on a finite tree list_notebooks returns the notebook paths in
\* depth-first order following the order of each listing: a NOTEBOOK gives its
\* path at its position, a DIRECTORY the whole result of listing it, any other
\* type nothing; a failed listing (root or subdirectory) gives an empty
\* sequence and the traversal goes on with the remaining siblings.
C10_ListNotebooksDepthFirst ==
    /\ pc = "list_notebooks" =>
          \A folder \in Folders : workspace[folder].read =>
              /\ DepthFirstNotebooks(returned, folder)
              /\ TraversalComplete(folder)
    /\ \A folder \in Folders : FolderFound(folder) =>
          /\ TraversalComplete(folder)
          /\ LastResult.status = "PASSED" =>
                DepthFirstNotebooks(LastResult.notebooks, folder)

\* a notebook, then a directory whose listing failed, then a notebook
C10_Witness ==
    /\ pc = "list_notebooks"
    /\ Len(returned) = 2
    /\ \E folder \in Folders :
          /\ workspace[folder].read
          /\ workspace[folder].tree[2].object_type = "DIRECTORY"
          /\ returned = <<ObjectPath(folder_path(args.env, folder), 1),
                          ObjectPath(folder_path(args.env, folder), 3)>>
          /\ \E i \in Listings(folder) : requests[i].path.node = 2 /\ ~requests[i].ok

====
